---- MODULE Spec2Model ----
(***************************************************************************)
(* Model of the Gemini service layer of immiplanner-ai: getAIClient,       *)
(* fileToGenerativePart, parseResume and analyzeProfile                    *)
(* (src/vite.config.ts, lines 29-226).                                     *)
(*                                                                         *)
(* The program runs on a single-threaded event loop.  One step of the      *)
(* model is one run-to-completion stretch of one invocation: from the call *)
(* to its first suspension, from the FileReader's loadend event to the     *)
(* next suspension, and from the settling of the model request to the end  *)
(* of the invocation.                                                      *)
(***************************************************************************)
EXTENDS Integers, Sequences, FiniteSets, TLC

VARIABLES
    apiKey,     \* process.env.REACT_APP_GEMINI_API_KEY
    op,         \* op[i]     : the exported function invocation i runs
    arg,        \* arg[i]    : its arguments
    pc,         \* pc[i]     : where invocation i is suspended or how it ended
    ai,         \* ai[i]     : the client getAIClient returned to invocation i
    reader,     \* reader[i] : the FileReader of fileToGenerativePart
    calls,      \* calls[i]  : the generateContent calls invocation i has made
    resp,       \* resp[i]   : how the awaited generateContent call settled
    result,     \* result[i] : the value returned, or the error thrown, to the caller
    errlog      \* errlog[i] : the console.error lines invocation i has written

vars == <<apiKey, op, arg, pc, ai, reader, calls, resp, result, errlog>>

(***************************************************************************)
(* Bounds                                                                  *)
(***************************************************************************)
NumInvocations == 2

Invocations == 1..NumInvocations

(***************************************************************************)
(* JavaScript values.  Every value carries its type tag t.                 *)
(***************************************************************************)
Undefined == [t |-> "undefined"]
Null      == [t |-> "null"]
Str(s)    == [t |-> "string", s |-> s]
Chars(c)  == [t |-> "string", c |-> c]
Num(n)    == [t |-> "number", n |-> n]
Arr(a)    == [t |-> "array", a |-> a]
Obj(o)    == [t |-> "object", o |-> o]
Err(m)    == [t |-> "error", message |-> m]

EmptyObj  == Obj([k \in {} |-> Undefined])

\* ToBoolean, as used by `!apiKey`, `if (response.text)` and `a || b`
Truthy(v) ==
    CASE v.t = "undefined" -> FALSE
      [] v.t = "null"      -> FALSE
      [] v.t = "string"    -> IF "s" \in DOMAIN v THEN v.s # "" ELSE v.c # <<>>
      [] v.t = "number"    -> v.n # 0
      [] OTHER             -> TRUE

\* a || b
Or(a, b) == IF Truthy(a) THEN a ELSE b

\* v.k : reading a property of undefined or null throws a TypeError
CanRead(v) == v.t \notin {"undefined", "null"}

Get(v, k) ==
    IF v.t = "object" /\ k \in DOMAIN v.o THEN v.o[k] ELSE Undefined

\* `${v}` for the values a profile holds
Template(v) ==
    CASE v.t = "string"    -> v.s
      [] v.t = "number"    -> ToString(v.n)
      [] v.t = "undefined" -> "undefined"
      [] v.t = "null"      -> "null"
      [] OTHER             -> "[object Object]"

TypeError == Err("TypeError")
SyntaxError == Err("SyntaxError")

(***************************************************************************)
(* getAIClient (lines 33-42).  The outcome of a stretch of code is a       *)
(* record [threw, value, log]: whether it threw, the value returned or the *)
(* error thrown, and the console.error lines written.                      *)
(***************************************************************************)
MissingKeyError == Err("Missing Gemini API Key")

NoClient == [t |-> "none"]

GoogleGenerativeAI(key) == [t |-> "GoogleGenerativeAI", apiKey |-> key]

\* getAIClient without the presence check of lines 36-39
getAIClientUnchecked ==
    [threw |-> FALSE, value |-> GoogleGenerativeAI(apiKey), log |-> <<>>]

getAIClient ==
    IF ~Truthy(apiKey)
    THEN [threw |-> TRUE, value |-> MissingKeyError,
          log |-> <<"Gemini API Key Missing!">>]
    ELSE [threw |-> FALSE, value |-> GoogleGenerativeAI(apiKey), log |-> <<>>]

(***************************************************************************)
(* Files and the FileReader of fileToGenerativePart (lines 45-58).         *)
(* A string the reader produces is a sequence of tokens; "," is a token of *)
(* its own, so that split(',') is computed and not assumed.                *)
(***************************************************************************)
PdfFile == [name |-> "cv.pdf",  type |-> "application/pdf", b64 |-> <<"J", "V", "B">>]
TxtFile == [name |-> "cv.txt",  type |-> "text/plain",      b64 |-> <<>>]

Files == {PdfFile, TxtFile}

NoFile == [name |-> "", type |-> "", b64 |-> <<>>]

\* FileReader.readAsDataURL: the data: URL of a file that was read
DataURL(file) == <<"data:", file.type, ";base64", ",">> \o file.b64

NoReader == [readyState |-> "NONE", result |-> Null, promise |-> "none"]

\* new FileReader(); reader.readAsDataURL(file)   (lines 47-49)
readAsDataURL == [readyState |-> "LOADING", result |-> Null, promise |-> "pending"]

\* The reader at its loadend event: result is the data: URL after a
\* successful read and null after a failed one.
ReaderDone(file, readOk) ==
    [readyState |-> "DONE",
     result |-> IF readOk THEN Chars(DataURL(file)) ELSE Null,
     promise |-> "pending"]

RECURSIVE SplitFrom(_, _, _)
SplitFrom(s, sep, cur) ==
    IF s = <<>> THEN <<cur>>
    ELSE IF Head(s) = sep
         THEN <<cur>> \o SplitFrom(Tail(s), sep, <<>>)
         ELSE SplitFrom(Tail(s), sep, Append(cur, Head(s)))

\* String.prototype.split (line 48)
Split(s, sep) == SplitFrom(s, sep, <<>>)

\* a[k] of a JavaScript array of strings (0-based; undefined past the end)
At(a, k) == IF k + 1 \in DOMAIN a THEN Chars(a[k + 1]) ELSE Undefined

\* a handler that tolerates a failed read and resolves with undefined
onloadendResolveOnError(r) ==
    IF CanRead(r.result)
    THEN [threw |-> FALSE, resolved |-> TRUE,
          value |-> At(Split(r.result.c, ","), 1)]
    ELSE [threw |-> FALSE, resolved |-> TRUE, value |-> Undefined]

\* reader.onloadend (line 48): resolves base64EncodedDataPromise, or throws
\* inside the event handler and leaves the promise pending.
onloadend(r) ==
    IF CanRead(r.result)
    THEN [threw |-> FALSE, resolved |-> TRUE,
          value |-> At(Split(r.result.c, ","), 1)]
    ELSE [threw |-> TRUE, resolved |-> FALSE, value |-> TypeError]

\* the value fileToGenerativePart returns (lines 52-57)
fileToGenerativePart(file, data) ==
    [inlineData |-> [data |-> data, mimeType |-> Str(file.type)]]

(***************************************************************************)
(* The model's replies.  A reply text is a string; JSONParse gives what    *)
(* JSON.parse gives on it: the value, or a SyntaxError.                    *)
(***************************************************************************)
ResumeNoCountryText ==
    "{\"name\":\"A\",\"educationLevel\":\"B\",\"fieldOfStudy\":\"C\",\"workExperienceYears\":5}"
ResumeCanadaText ==
    "{\"name\":\"A\",\"country\":\"Canada\",\"educationLevel\":\"B\",\"fieldOfStudy\":\"C\",\"workExperienceYears\":5,\"englishScore\":7}"
ResumeEmptyCountryText ==
    "{\"name\":\"D\",\"country\":\"\",\"educationLevel\":\"B\",\"fieldOfStudy\":\"C\",\"workExperienceYears\":0}"
AnalysisFullText ==
    "{\"overallSuccessProbability\":55,\"crsScorePrediction\":401,\"riskFactors\":[],\"strengths\":[\"Degree\"],\"assumptions\":[],\"recommendedPathways\":[],\"otherPathways\":[],\"strategicAdvice\":[\"Retake IELTS\"],\"futureCrsPredictions\":{\"current\":401}}"
AnalysisNoListsText ==
    "{\"overallSuccessProbability\":55,\"crsScorePrediction\":401}"
EmptyObjectText == "{}"
NullText == "null"
TruncatedText == "{\"name\":"

Texts == {ResumeNoCountryText, ResumeCanadaText, ResumeEmptyCountryText,
          AnalysisFullText, AnalysisNoListsText, EmptyObjectText, NullText,
          TruncatedText}

JSONParse(text) ==
    CASE text = ResumeNoCountryText ->
           Obj([name |-> Str("A"), educationLevel |-> Str("B"),
                fieldOfStudy |-> Str("C"), workExperienceYears |-> Num(5)])
      [] text = ResumeCanadaText ->
           Obj([name |-> Str("A"), country |-> Str("Canada"),
                educationLevel |-> Str("B"), fieldOfStudy |-> Str("C"),
                workExperienceYears |-> Num(5), englishScore |-> Num(7)])
      [] text = ResumeEmptyCountryText ->
           Obj([name |-> Str("D"), country |-> Str(""),
                educationLevel |-> Str("B"), fieldOfStudy |-> Str("C"),
                workExperienceYears |-> Num(0)])
      [] text = AnalysisFullText ->
           Obj([overallSuccessProbability |-> Num(55),
                crsScorePrediction |-> Num(401),
                riskFactors |-> Arr(<<>>),
                strengths |-> Arr(<<Str("Degree")>>),
                assumptions |-> Arr(<<>>),
                recommendedPathways |-> Arr(<<>>),
                otherPathways |-> Arr(<<>>),
                strategicAdvice |-> Arr(<<Str("Retake IELTS")>>),
                futureCrsPredictions |-> Obj([current |-> Num(401)])])
      [] text = AnalysisNoListsText ->
           Obj([overallSuccessProbability |-> Num(55),
                crsScorePrediction |-> Num(401)])
      [] text = EmptyObjectText -> EmptyObj
      [] text = NullText -> Null
      [] OTHER -> SyntaxError

\* How an awaited generateContent call settles: rejected with an error, or
\* fulfilled with a response whose text is absent, empty or one of Texts.
NetworkError == Err("fetch failed")

Response(text) == Obj([text |-> text])

Settlements ==
    {[settled |-> "rejected", value |-> NetworkError],
     [settled |-> "fulfilled", value |-> Undefined],
     [settled |-> "fulfilled", value |-> Response(Undefined)],
     [settled |-> "fulfilled", value |-> Response(Str(""))]}
    \cup {[settled |-> "fulfilled", value |-> Response(Str(x))] : x \in Texts}

\* generateContent threw before returning a promise
ThrewInCall == [settled |-> "threw", value |-> TypeError]

NoSettlement == [settled |-> "none", value |-> Undefined]

(***************************************************************************)
(* parseResume (lines 63-114)                                              *)
(***************************************************************************)
ModelName == "gemini-2.5-flash"

ResumePrompt == "You are an intelligent immigration resume parser..."

\* the argument of generateContent (lines 74-94)
ResumeRequest(filePart) ==
    [model |-> ModelName,
     contents |-> [parts |-> <<filePart, [text |-> ResumePrompt]>>],
     config |-> [responseMimeType |-> "application/json",
                 properties |-> {"name", "country", "educationLevel",
                                 "fieldOfStudy", "workExperienceYears",
                                 "englishScore"},
                 required |-> {"name", "educationLevel", "fieldOfStudy",
                               "workExperienceYears"}]]

\* lines 99-106 with `data.country` copied as it is
MapResumeKeepFalsy(data) ==
    Obj([name                |-> Get(data, "name"),
         countryOfResidence  |-> Get(data, "country"),
         educationLevel      |-> Get(data, "educationLevel"),
         fieldOfStudy        |-> Get(data, "fieldOfStudy"),
         workExperienceYears |-> Get(data, "workExperienceYears"),
         englishScore        |-> Get(data, "englishScore")])

\* the object literal of lines 99-106
MapResume(data) ==
    Obj([name                |-> Get(data, "name"),
         countryOfResidence  |-> Or(Get(data, "country"), Undefined),
         educationLevel      |-> Get(data, "educationLevel"),
         fieldOfStudy        |-> Get(data, "fieldOfStudy"),
         workExperienceYears |-> Get(data, "workExperienceYears"),
         englishScore        |-> Get(data, "englishScore")])

\* the catch block (lines 110-113)
ResumeCatch(error) ==
    [threw |-> FALSE, value |-> EmptyObj, log |-> <<"Error parsing resume:">>]

\* lines 96-113, run once the generateContent call has settled as s
ResumeSettled(s) ==
    IF s.settled # "fulfilled" THEN ResumeCatch(s.value)
    ELSE IF ~CanRead(s.value) THEN ResumeCatch(TypeError)
    ELSE LET text == Get(s.value, "text") IN
         IF Truthy(text)
         THEN LET data == JSONParse(text.s) IN
              IF data.t = "error" THEN ResumeCatch(data)
              ELSE IF ~CanRead(data) THEN ResumeCatch(TypeError)
              ELSE [threw |-> FALSE, value |-> MapResume(data), log |-> <<>>]
         ELSE [threw |-> FALSE, value |-> EmptyObj, log |-> <<>>]

(***************************************************************************)
(* analyzeProfile (lines 120-226)                                          *)
(***************************************************************************)
Student == "Student"
SkilledWorker == "SkilledWorker"
UserTypes == {Student, SkilledWorker}

LanguageTest(testType, overall, r, w, l, sp) ==
    [t |-> "object", testType |-> Str(testType), overallScore |-> Num(overall),
     reading |-> Num(r), writing |-> Num(w), listening |-> Num(l),
     speaking |-> Num(sp)]

ProfileIelts ==
    [t |-> "object", name |-> Str("Asha"), age |-> Num(29),
     countryOfResidence |-> Str("India"), educationLevel |-> Str("Masters"),
     workExperienceYears |-> Num(4), savings |-> Num(20000),
     settlementFunds |-> Num(15000),
     languageDetails |-> LanguageTest("IELTS", 7, 7, 6, 8, 7),
     frenchDetails |-> LanguageTest("None", 5, 5, 5, 5, 5)]

ProfileFrench ==
    [t |-> "object", name |-> Str("Luc"), age |-> Num(35),
     countryOfResidence |-> Undefined, educationLevel |-> Str("Bachelors"),
     workExperienceYears |-> Num(0), savings |-> Num(0),
     settlementFunds |-> Num(0),
     languageDetails |-> Undefined,
     frenchDetails |-> LanguageTest("TEF", 6, 6, 5, 6, 7)]

Profiles == {ProfileIelts, ProfileFrench}

NoProfile == [t |-> "none"]

\* lines 130-140
specificInstructions(userType) ==
    IF userType = Student
    THEN "CONTEXT: USER IS A STUDENT..."
    ELSE "CONTEXT: USER IS A SKILLED WORKER..."

\* the template of lines 146 and 152
LanguageLine(lt) ==
    Template(lt.testType) \o " - Overall:" \o Template(lt.overallScore)
      \o ", R:" \o Template(lt.reading) \o ", W:" \o Template(lt.writing)
      \o ", L:" \o Template(lt.listening) \o ", S:" \o Template(lt.speaking)

\* lines 143-147
englishInfo(profile) ==
    IF Truthy(profile.languageDetails)
    THEN LanguageLine(profile.languageDetails)
    ELSE "N/A"

\* lines 149-153
frenchInfo(profile) ==
    IF Truthy(profile.frenchDetails)
         /\ profile.frenchDetails.testType # Str("None")
    THEN LanguageLine(profile.frenchDetails)
    ELSE "None"

\* lines 155-166
commonPrompt(profile) ==
    "Profile: Name: " \o Template(profile.name)
      \o " Age: " \o Template(profile.age)
      \o " Country: " \o Template(profile.countryOfResidence)
      \o " Education: " \o Template(profile.educationLevel)
      \o " Work Experience: " \o Template(profile.workExperienceYears)
      \o " English: " \o englishInfo(profile)
      \o " French: " \o frenchInfo(profile)
      \o " Savings: " \o Template(profile.savings)
      \o " Settlement Funds: " \o Template(profile.settlementFunds)

ListFields == {"riskFactors", "strengths", "assumptions",
               "recommendedPathways", "otherPathways", "strategicAdvice"}

\* the argument of generateContent (lines 169-197)
AnalysisRequest(profile, userType) ==
    [model |-> ModelName,
     contents |-> specificInstructions(userType) \o " " \o commonPrompt(profile)
                    \o " Produce structured JSON output...",
     config |-> [responseMimeType |-> "application/json",
                 properties |-> {"overallSuccessProbability",
                                 "crsScorePrediction", "futureCrsPredictions"}
                                \cup ListFields,
                 required |-> {}]]

\* the fallback literal (lines 206-224)
Fallback ==
    Obj([overallSuccessProbability |-> Num(72),
         crsScorePrediction |-> Num(310),
         riskFactors |-> Arr(<<Str("Missing language test")>>),
         strengths |-> Arr(<<Str("Good financial support")>>),
         assumptions |-> Arr(<<Str("Assumed CLB 5 for missing IELTS")>>),
         recommendedPathways |-> Arr(<<>>),
         otherPathways |-> Arr(<<>>),
         strategicAdvice |-> Arr(<<Str("Improve English score"),
                                   Str("Consider 2-year study leading to PGWP")>>),
         futureCrsPredictions |->
             Obj([current |-> Num(310), oneYearStudy |-> Num(335),
                  twoYearStudy |-> Num(360), twoYearStudyPlusWork |-> Num(470)])])

\* a catch block that logs and rethrows instead of returning the fallback
AnalysisCatchRethrow(error) ==
    [threw |-> TRUE, value |-> error, log |-> <<"Error analyzing profile:">>]

\* the catch block (lines 202-225)
AnalysisCatch(error) ==
    [threw |-> FALSE, value |-> Fallback, log |-> <<"Error analyzing profile:">>]

\* lines 199-225 without the throw of line 201: an empty reply falls out of
\* the try block and the function returns undefined
AnalysisSettledNoThrow(s) ==
    IF s.settled # "fulfilled" THEN AnalysisCatch(s.value)
    ELSE IF ~CanRead(s.value) THEN AnalysisCatch(TypeError)
    ELSE LET text == Get(s.value, "text") IN
         IF Truthy(text)
         THEN LET data == JSONParse(text.s) IN
              IF data.t = "error" THEN AnalysisCatch(data)
              ELSE [threw |-> FALSE, value |-> data, log |-> <<>>]
         ELSE [threw |-> FALSE, value |-> Undefined, log |-> <<>>]

\* lines 199-225, run once the generateContent call has settled as s
AnalysisSettled(s) ==
    IF s.settled # "fulfilled" THEN AnalysisCatch(s.value)
    ELSE IF ~CanRead(s.value) THEN AnalysisCatch(TypeError)
    ELSE LET text == Get(s.value, "text") IN
         IF Truthy(text)
         THEN LET data == JSONParse(text.s) IN
              IF data.t = "error" THEN AnalysisCatch(data)
              ELSE [threw |-> FALSE, value |-> data, log |-> <<>>]
         ELSE AnalysisCatch(Err("No response returned"))

(***************************************************************************)
(* The state machine                                                       *)
(***************************************************************************)
NoArg == [file |-> NoFile, profile |-> NoProfile, userType |-> ""]

NoResult == [t |-> "none"]

ApiKeys == {Undefined, Str(""), Str("AIza-test-key")}

Init ==
    /\ apiKey \in ApiKeys
    /\ op     = [i \in Invocations |-> "none"]
    /\ arg    = [i \in Invocations |-> NoArg]
    /\ pc     = [i \in Invocations |-> "idle"]
    /\ ai     = [i \in Invocations |-> NoClient]
    /\ reader = [i \in Invocations |-> NoReader]
    /\ calls  = [i \in Invocations |-> <<>>]
    /\ resp   = [i \in Invocations |-> NoSettlement]
    /\ result = [i \in Invocations |-> NoResult]
    /\ errlog = [i \in Invocations |-> <<>>]

\* The caller is single-threaded: it starts its invocations one after another.
CanStart(i) ==
    /\ pc[i] = "idle"
    /\ \A j \in Invocations : j < i => pc[j] # "idle"

\* Invocation i ends with outcome o, its generateContent call having settled
\* as s: the promise of the async function is fulfilled with the value
\* returned, or rejected with the error thrown.
Return(i, s, o) ==
    /\ pc'     = [pc EXCEPT ![i] = IF o.threw THEN "rejected" ELSE "returned"]
    /\ resp'   = [resp EXCEPT ![i] = s]
    /\ result' = [result EXCEPT ![i] = o.value]
    /\ errlog' = [errlog EXCEPT ![i] = errlog[i] \o o.log]

\* getAIClient threw in invocation i (lines 64 and 125 lie outside the try):
\* the promise the async function returned is rejected with the error.
Reject(i, c) ==
    /\ pc'     = [pc EXCEPT ![i] = "rejected"]
    /\ result' = [result EXCEPT ![i] = c.value]
    /\ errlog' = [errlog EXCEPT ![i] = errlog[i] \o c.log]
    /\ UNCHANGED <<ai, reader, calls, resp>>

\* parseResume(file), up to `await fileToGenerativePart(file)` (lines 63-67)
CallParseResume(i, file) ==
    /\ CanStart(i)
    /\ op'  = [op EXCEPT ![i] = "parseResume"]
    /\ arg' = [arg EXCEPT ![i] = [NoArg EXCEPT !.file = file]]
    /\ LET c == getAIClient IN
       IF c.threw
       THEN Reject(i, c)
       ELSE /\ ai'     = [ai EXCEPT ![i] = c.value]
            /\ reader' = [reader EXCEPT ![i] = readAsDataURL]
            /\ pc'     = [pc EXCEPT ![i] = "awaitFile"]
            /\ UNCHANGED <<calls, resp, result, errlog>>
    /\ UNCHANGED apiKey

\* The reader of invocation i fires loadend.  When the handler resolves the
\* promise, parseResume resumes and calls generateContent (lines 67-94); the
\* call either throws at once (inCall) or returns a promise that is awaited.
LoadEnd(i, readOk, inCall) ==
    /\ pc[i] = "awaitFile"
    /\ reader[i].readyState = "LOADING"
    /\ LET r == ReaderDone(arg[i].file, readOk)
           h == onloadend(r)
       IN  IF ~h.resolved
           THEN /\ reader' = [reader EXCEPT ![i] = r]
                /\ UNCHANGED <<pc, calls, resp, result, errlog>>
           ELSE /\ reader' = [reader EXCEPT ![i] = [r EXCEPT !.promise = "fulfilled"]]
                /\ calls'  = [calls EXCEPT ![i] = Append(calls[i],
                                 ResumeRequest(fileToGenerativePart(arg[i].file, h.value)))]
                /\ IF inCall
                   THEN Return(i, ThrewInCall, ResumeSettled(ThrewInCall))
                   ELSE /\ pc' = [pc EXCEPT ![i] = "awaitModel"]
                        /\ UNCHANGED <<resp, result, errlog>>
    /\ UNCHANGED <<apiKey, op, arg, ai>>

\* analyzeProfile(profile, userType), up to `await generateContent` (lines 120-197)
CallAnalyzeProfile(i, profile, userType, inCall) ==
    /\ CanStart(i)
    /\ op'  = [op EXCEPT ![i] = "analyzeProfile"]
    /\ arg' = [arg EXCEPT ![i] = [NoArg EXCEPT !.profile = profile,
                                               !.userType = userType]]
    /\ LET c == getAIClient IN
       IF c.threw
       THEN Reject(i, c)
       ELSE /\ ai'    = [ai EXCEPT ![i] = c.value]
            /\ calls' = [calls EXCEPT ![i] = Append(calls[i],
                            AnalysisRequest(profile, userType))]
            /\ IF inCall
               THEN Return(i, ThrewInCall, AnalysisSettled(ThrewInCall))
               ELSE /\ pc' = [pc EXCEPT ![i] = "awaitModel"]
                    /\ UNCHANGED <<resp, result, errlog>>
            /\ UNCHANGED reader
    /\ UNCHANGED apiKey

\* Settle with one retry of a rejected call
SettleRetry(i, s) ==
    /\ pc[i] = "awaitModel"
    /\ IF s.settled = "rejected" /\ Len(calls[i]) < 2
       THEN /\ calls' = [calls EXCEPT ![i] = Append(calls[i], calls[i][1])]
            /\ UNCHANGED <<pc, resp, result, errlog>>
       ELSE /\ Return(i, s, IF op[i] = "parseResume"
                            THEN ResumeSettled(s) ELSE AnalysisSettled(s))
            /\ UNCHANGED calls
    /\ UNCHANGED <<apiKey, op, arg, ai, reader>>

\* Settle with identical requests in flight de-duplicated: one reply settles
\* every invocation awaiting the same request
SettleShared(i, s) ==
    /\ pc[i] = "awaitModel"
    /\ LET same == {j \in Invocations :
                       pc[j] = "awaitModel" /\ op[j] = op[i] /\ calls[j] = calls[i]}
           o == IF op[i] = "parseResume" THEN ResumeSettled(s) ELSE AnalysisSettled(s)
       IN  /\ pc'     = [j \in Invocations |-> IF j \in same THEN "returned" ELSE pc[j]]
           /\ resp'   = [j \in Invocations |-> IF j \in same THEN s ELSE resp[j]]
           /\ result' = [j \in Invocations |-> IF j \in same THEN o.value ELSE result[j]]
           /\ errlog' = [j \in Invocations |->
                            IF j \in same THEN errlog[j] \o o.log ELSE errlog[j]]
    /\ UNCHANGED <<apiKey, op, arg, ai, reader, calls>>

\* The generateContent call of invocation i settles as s; the invocation
\* resumes and runs to its end (lines 96-113, 199-225).
Settle(i, s) ==
    /\ pc[i] = "awaitModel"
    /\ Return(i, s, IF op[i] = "parseResume"
                    THEN ResumeSettled(s) ELSE AnalysisSettled(s))
    /\ UNCHANGED <<apiKey, op, arg, ai, reader, calls>>

Next ==
    \/ \E i \in Invocations, file \in Files : CallParseResume(i, file)
    \/ \E i \in Invocations, readOk \in BOOLEAN, inCall \in BOOLEAN :
           LoadEnd(i, readOk, inCall)
    \/ \E i \in Invocations, profile \in Profiles, userType \in UserTypes,
          inCall \in BOOLEAN : CallAnalyzeProfile(i, profile, userType, inCall)
    \/ \E i \in Invocations, s \in Settlements : Settle(i, s)

Spec == Init /\ [][Next]_vars

(***************************************************************************)
(* Vocabulary of the properties                                            *)
(***************************************************************************)
HasKey == Truthy(apiKey)

IsParse(i)   == op[i] = "parseResume"
IsAnalyze(i) == op[i] = "analyzeProfile"

\* the reply text of a settled call, when there is one
HasText(s) ==
    /\ s.settled = "fulfilled"
    /\ s.value.t = "object"
    /\ "text" \in DOMAIN s.value.o
    /\ s.value.o["text"].t = "string"
    /\ s.value.o["text"].s # ""

TextOf(s) == s.value.o["text"].s

ParsesAsJSON(s) == HasText(s) /\ JSONParse(TextOf(s)) # SyntaxError

\* the model call threw, returned no text, or returned text that is not JSON
ModelFailed(s) == s.settled # "none" /\ ~ParsesAsJSON(s)

(***************************************************************************)
(* C1.  As claimed: analyzeProfile never throws to its caller; whatever    *)
(* the credential, the profile, the userType and the outcome of the model  *)
(* call, an invocation that has ended has returned the parsed reply or the *)
(* fallback.                                                               *)
(***************************************************************************)
C1_AnalyzeNeverThrows ==
    \A i \in Invocations :
        IsAnalyze(i) =>
            /\ pc[i] # "rejected"
            /\ pc[i] = "returned" =>
                  \/ result[i] = Fallback
                  \/ ParsesAsJSON(resp[i]) /\ result[i] = JSONParse(TextOf(resp[i]))

(***************************************************************************)
(* C1, amended.  With the credential present analyzeProfile never throws:  *)
(* it is awaiting the model call or has returned the parsed reply or the   *)
(* fallback.  With the credential absent it throws the missing-credential  *)
(* error, and nothing else.                                                *)
(***************************************************************************)
C1_AnalyzeThrowsOnlyMissingKey ==
    \A i \in Invocations :
        IsAnalyze(i) =>
            IF HasKey
            THEN /\ pc[i] \in {"awaitModel", "returned"}
                 /\ pc[i] = "awaitModel" <=> resp[i] = NoSettlement
                 /\ pc[i] = "returned" =>
                       \/ result[i] = Fallback
                       \/ ParsesAsJSON(resp[i])
                            /\ result[i] = JSONParse(TextOf(resp[i]))
            ELSE pc[i] = "rejected" /\ result[i] = MissingKeyError

C1_Witness ==
    /\ HasKey
    /\ \E i \in Invocations :
          /\ IsAnalyze(i) /\ pc[i] = "returned"
          /\ resp[i].settled = "rejected" /\ result[i] = Fallback
    /\ \E i \in Invocations :
          /\ IsAnalyze(i) /\ pc[i] = "returned"
          /\ ParsesAsJSON(resp[i]) /\ result[i] # Fallback

(***************************************************************************)
(* C3.  With the credential absent no generateContent call is ever made    *)
(* and no client is ever produced: every invocation that was started has   *)
(* ended with the missing-credential error.                                *)
(***************************************************************************)
C3_NoKeyNoRequest ==
    ~HasKey =>
        \A i \in Invocations :
            /\ calls[i] = <<>>
            /\ ai[i] = NoClient
            /\ resp[i] = NoSettlement
            /\ pc[i] \in {"idle", "rejected"}
            /\ pc[i] = "rejected" => result[i] = MissingKeyError

C3_Witness ==
    /\ apiKey = Str("")
    /\ \E i, j \in Invocations :
          /\ IsParse(i) /\ pc[i] = "rejected"
          /\ IsAnalyze(j) /\ pc[j] = "rejected"

(***************************************************************************)
(* C4.  An analyzeProfile invocation whose model call threw, returned no   *)
(* text or returned text that is not JSON has returned exactly the         *)
(* fallback literal, whatever the cause, the profile and the userType.     *)
(***************************************************************************)
C4_FallbackLiteral ==
    Obj([overallSuccessProbability |-> Num(72),
         crsScorePrediction |-> Num(310),
         riskFactors |-> Arr(<<Str("Missing language test")>>),
         strengths |-> Arr(<<Str("Good financial support")>>),
         assumptions |-> Arr(<<Str("Assumed CLB 5 for missing IELTS")>>),
         recommendedPathways |-> Arr(<<>>),
         otherPathways |-> Arr(<<>>),
         strategicAdvice |-> Arr(<<Str("Improve English score"),
                                   Str("Consider 2-year study leading to PGWP")>>),
         futureCrsPredictions |->
             Obj([current |-> Num(310), oneYearStudy |-> Num(335),
                  twoYearStudy |-> Num(360), twoYearStudyPlusWork |-> Num(470)])])

C4_FailureGivesFallback ==
    \A i \in Invocations :
        (IsAnalyze(i) /\ ModelFailed(resp[i])) =>
            /\ pc[i] = "returned"
            /\ result[i] = C4_FallbackLiteral
            /\ Len(result[i].o["strategicAdvice"].a) = 2

C4_Witness ==
    \E i, j \in Invocations :
        /\ IsAnalyze(i) /\ IsAnalyze(j)
        /\ arg[i] # arg[j]
        /\ resp[i] = [settled |-> "fulfilled", value |-> Response(Undefined)]
        /\ resp[j] = [settled |-> "fulfilled", value |-> Response(Str(TruncatedText))]
        /\ result[i] = Fallback /\ result[j] = Fallback

(***************************************************************************)
(* More vocabulary                                                         *)
(***************************************************************************)
Started(i)  == pc[i] # "idle"
Finished(i) == pc[i] \in {"returned", "rejected"}

\* the file read of invocation i failed
ReadFailed(i) == reader[i].readyState = "DONE" /\ reader[i].result = Null

\* a step of invocation i after its start
Resume(i) ==
    \/ \E readOk \in BOOLEAN, inCall \in BOOLEAN : LoadEnd(i, readOk, inCall)
    \/ \E s \in Settlements : Settle(i, s)

\* invocation i has not ended and nothing can resume it
Stuck(i) == Started(i) /\ ~Finished(i) /\ ~ENABLED Resume(i)

\* the reply cannot be mapped: the call failed, or the text is not a JSON object
ResumeFailed(s) ==
    ModelFailed(s) \/ (ParsesAsJSON(s) /\ JSONParse(TextOf(s)) = Null)

(***************************************************************************)
(* C2.  Once it has its client, parseResume never throws and never stays   *)
(* unfinished with nothing left to resume it; when the file read or the    *)
(* model call failed, it has returned the empty profile {}.                *)
(***************************************************************************)
C2_IngestAlwaysReturns ==
    HasKey =>
        \A i \in Invocations :
            IsParse(i) =>
                /\ pc[i] # "rejected"
                /\ ~Stuck(i)
                /\ (ReadFailed(i) \/ ResumeFailed(resp[i])) =>
                       (pc[i] = "returned" /\ result[i] = EmptyObj)

(***************************************************************************)
(* C5.  Every value analyzeProfile has returned holds all six list fields, *)
(* each an array.                                                          *)
(***************************************************************************)
C5_ListFieldsPresent ==
    \A i \in Invocations :
        (IsAnalyze(i) /\ pc[i] = "returned") =>
            \A f \in ListFields : Get(result[i], f).t = "array"

(***************************************************************************)
(* C6.  The only error an invocation ends with is the missing-credential   *)
(* error, thrown exactly when the credential is absent; a failed file      *)
(* read, a failed model call, an empty reply and a reply that cannot be    *)
(* parsed or mapped have each been turned into {} by parseResume and into  *)
(* the fallback by analyzeProfile.                                         *)
(***************************************************************************)
C6_OnlyMissingKeyEscapes ==
    \A i \in Invocations :
        /\ pc[i] = "rejected" => (~HasKey /\ result[i] = MissingKeyError)
        /\ (Started(i) /\ ~HasKey) => pc[i] = "rejected"
        /\ (IsParse(i) /\ (ReadFailed(i) \/ ResumeFailed(resp[i]))) =>
               (pc[i] = "returned" /\ result[i] = EmptyObj)
        /\ (IsAnalyze(i) /\ ModelFailed(resp[i])) =>
               (pc[i] = "returned" /\ result[i] = Fallback)

(***************************************************************************)
(* C7.  As claimed: no invocation makes a second generateContent call, and *)
(* every invocation that has ended has made one.                           *)
(***************************************************************************)
C7_ExactlyOneAttempt ==
    \A i \in Invocations :
        /\ Len(calls[i]) <= 1
        /\ Finished(i) => Len(calls[i]) = 1

(***************************************************************************)
(* C7, amended.  No invocation makes a second generateContent call; an     *)
(* invocation that awaits the model or has returned a result has made      *)
(* exactly one; an invocation that ended with the missing-credential error *)
(* or is still waiting for its file has made none.                         *)
(***************************************************************************)
C7_AtMostOneAttempt ==
    \A i \in Invocations :
        /\ Len(calls[i]) <= 1
        /\ pc[i] \in {"awaitModel", "returned"} => Len(calls[i]) = 1
        /\ pc[i] \in {"idle", "awaitFile", "rejected"} => Len(calls[i]) = 0

C7_Witness ==
    \E i, j, k \in Invocations :
        /\ pc[i] = "returned" /\ resp[i].settled = "rejected" /\ Len(calls[i]) = 1
        /\ pc[j] = "returned" /\ ResumeFailed(resp[j]) /\ HasText(resp[j])
        /\ IsParse(k) /\ Len(calls[k]) = 1

(***************************************************************************)
(* C8.  When the reply to parseResume is the text of a JSON object, the    *)
(* result's countryOfResidence is the reply's country if that is present   *)
(* and truthy and undefined otherwise, never the empty string; the other   *)
(* five fields are those of the reply.                                     *)
(***************************************************************************)
C8_Field(d, k) == IF k \in DOMAIN d THEN d[k] ELSE Undefined

C8_CountryMapping ==
    \A i \in Invocations :
        (IsParse(i) /\ ParsesAsJSON(resp[i])
           /\ JSONParse(TextOf(resp[i])).t = "object") =>
            LET d == JSONParse(TextOf(resp[i])).o
                out == result[i].o
                country == C8_Field(d, "country")
            IN  /\ pc[i] = "returned"
                /\ DOMAIN out = {"name", "countryOfResidence", "educationLevel",
                                 "fieldOfStudy", "workExperienceYears", "englishScore"}
                /\ out["countryOfResidence"] =
                      IF country \notin {Undefined, Null, Str(""), Num(0)}
                      THEN country ELSE Undefined
                /\ out["countryOfResidence"] # Str("")
                /\ \A k \in {"name", "educationLevel", "fieldOfStudy",
                             "workExperienceYears", "englishScore"} :
                       out[k] = C8_Field(d, k)

C8_Witness ==
    \E i, j \in Invocations :
        /\ IsParse(i) /\ resp[i].value = Response(Str(ResumeCanadaText))
        /\ result[i].o["countryOfResidence"] = Str("Canada")
        /\ IsParse(j) /\ resp[j].value = Response(Str(ResumeEmptyCountryText))
        /\ result[j].o["countryOfResidence"] = Undefined
        /\ result[j].o["name"] = Str("D")

(***************************************************************************)
(* C9.  An invocation of parseResume whose file read failed is waiting for *)
(* its file, with no generateContent call made, no result and no error,    *)
(* and no later step changes that.                                         *)
(***************************************************************************)
C9_Pending(i) ==
    /\ pc[i] = "awaitFile"
    /\ reader[i].promise = "pending"
    /\ calls[i] = <<>>
    /\ resp[i] = NoSettlement
    /\ result[i] = NoResult

C9_ReadFailureNeverResolves ==
    [][\A i \in Invocations :
          /\ ReadFailed(i)' => C9_Pending(i)'
          /\ ReadFailed(i) => (ReadFailed(i)' /\ ~ENABLED Resume(i))]_vars

C9_Witness ==
    \E i, j \in Invocations :
        /\ ReadFailed(i) /\ IsParse(i) /\ pc[i] = "awaitFile"
        /\ i < j /\ IsParse(j) /\ pc[j] = "returned" /\ HasText(resp[j])

(***************************************************************************)
(* C10.  A step changes the state of one invocation only and never the     *)
(* credential; every invocation gets a client of its own built from the    *)
(* credential; and two invocations with the same function, arguments, file *)
(* read and model reply end with the same result, whatever ran in between. *)
(***************************************************************************)
Own(i) == <<op[i], arg[i], pc[i], ai[i], reader[i], calls[i], resp[i],
            result[i], errlog[i]>>

C10_Independent ==
    [][/\ \E i \in Invocations : \A j \in Invocations \ {i} : Own(j)' = Own(j)
       /\ apiKey' = apiKey
       /\ \A i, j \in Invocations :
             (/\ Finished(i)' /\ Finished(j)'
              /\ op'[i] = op'[j] /\ arg'[i] = arg'[j]
              /\ reader'[i] = reader'[j] /\ resp'[i] = resp'[j]) =>
                 (/\ pc'[i] = pc'[j] /\ result'[i] = result'[j]
                  /\ calls'[i] = calls'[j] /\ errlog'[i] = errlog'[j])]_vars

C10_Witness ==
    \E i, j \in Invocations :
        /\ i < j
        /\ IsParse(i) /\ pc[i] = "awaitModel"
        /\ IsAnalyze(j) /\ pc[j] = "returned" /\ HasText(resp[j])
        /\ calls[i] # <<>> /\ calls[j] # <<>>

====
